---------------------------- MODULE Spec2Model ----------------------------
(***************************************************************************)
(* num-runtime-fmt: a runtime numeric formatter.                           *)
(*                                                                         *)
(* A Builder is filled by fluent setters and consumed by build() into an   *)
(* immutable NumFmt; NumFmt::fmt / NumFmt::fmt_with render a Numeric value *)
(* into a string.  Strings are sequences of one-character strings.  An     *)
(* Option<T> is the empty sequence (None) or a one-element sequence.       *)
(***************************************************************************)
EXTENDS Integers, Sequences, FiniteSets, TLC

VARIABLES builder, nset, fmt, phase, number, dynamic, result, calls

vars == <<builder, nset, fmt, phase, number, dynamic, result, calls>>

(***************************************************************************)
(* Bounds of the model.                                                    *)
(***************************************************************************)
MaxWidth == 4
MaxPrecision == 1
MaxSpacing == 2
MaxSetterCalls == 3
MaxCalls == 2
DynWidth == 7
NoGrouping == 64

None == <<>>
Some(x) == <<x>>

Aligns == {"Left", "Center", "Right", "Decimal"}
Bases == {"Binary", "Octal", "Decimal", "LowerHex", "UpperHex"}
Signs == {"PlusAndMinus", "OnlyMinus"}
FillChars == {"0", "-"}
SeparatorChars == {"_"}
DecimalSeparatorChars == {","}
Widths == 0..MaxWidth
Precisions == 0..MaxPrecision
Spacings == 1..MaxSpacing

(***************************************************************************)
(* Small helpers on sequences.                                             *)
(***************************************************************************)
RECURSIVE Repeat(_, _)
Repeat(ch, n) == IF n <= 0 THEN <<>> ELSE <<ch>> \o Repeat(ch, n - 1)

RECURSIVE Reverse(_)
Reverse(s) == IF s = <<>> THEN <<>> ELSE Reverse(Tail(s)) \o <<Head(s)>>

Take(s, n) == SubSeq(s, 1, IF n < Len(s) THEN n ELSE Len(s))

saturating_sub(a, b) == IF a > b THEN a - b ELSE 0

(***************************************************************************)
(* Numeric values.  A value is [ty, neg, int, frac]: its type class, its   *)
(* sign, the integer part of its magnitude and the fractional digits that  *)
(* to_string() prints for it (empty for integers and integral floats).     *)
(***************************************************************************)
Unsigned(n) == [ty |-> "unsigned", neg |-> FALSE, int |-> n, frac |-> <<>>]

Signed(n) == [ty |-> "signed", neg |-> n < 0,
              int |-> IF n < 0 THEN -n ELSE n, frac |-> <<>>]

Float(neg, int, frac) == [ty |-> "float", neg |-> neg, int |-> int, frac |-> frac]

UnsignedValues == {0, 1, 13, 1234}
SignedValues == {-1, -12}

\* 1.1, -1.1, 12.25 and 3.0
FloatValues ==
    {Float(FALSE, 1, <<"1">>), Float(TRUE, 1, <<"1">>),
     Float(FALSE, 12, <<"2", "5">>), Float(FALSE, 3, <<>>)}

Numbers ==
    {Unsigned(n) : n \in UnsignedValues} \cup {Signed(n) : n \in SignedValues}
    \cup FloatValues

DigitChars ==
    <<"0", "1", "2", "3", "4", "5", "6", "7", "8", "9", "a", "b", "c", "d", "e", "f">>

\* (maybe_digit + b'0') as char, (maybe_digit - 10 + b'a') as char
DigitChar(d) == DigitChars[d + 1]

\* a faulty uppercasing: the characters pass unchanged
to_ascii_uppercase_unchanged(ch) == ch

to_ascii_uppercase(ch) ==
    CASE ch = "a" -> "A" [] ch = "b" -> "B" [] ch = "c" -> "C"
      [] ch = "d" -> "D" [] ch = "e" -> "E" [] ch = "f" -> "F"
      [] OTHER -> ch

BinIter_WIDTH == 1
OctIter_WIDTH == 3
HexIter_WIDTH == 4

\* a faulty next(): the iterator stops one step late and yields a leading '0'
RECURSIVE impl_iter_one_more(_, _)
impl_iter_one_more(n, width) ==
    IF n = 0 THEN <<"0">>
    ELSE <<DigitChar(n % (2 ^ width))>> \o impl_iter_one_more(n \div (2 ^ width), width)

\* BinIter / OctIter / HexIter on a non-negative n: Iterator::next until None,
\* least significant digit first.  MASK = 2^WIDTH - 1, so n & MASK is
\* n % 2^WIDTH and n >>= WIDTH is n \div 2^WIDTH.
RECURSIVE impl_iter(_, _)
impl_iter(n, width) ==
    IF n = 0 THEN <<>>
    ELSE <<DigitChar(n % (2 ^ width))>> \o impl_iter(n \div (2 ^ width), width)

\* n.to_string() of a non-negative integer, most significant digit first
RECURSIVE IntToString(_)
IntToString(n) ==
    IF n < 10 THEN <<DigitChar(n)>>
    ELSE IntToString(n \div 10) \o <<DigitChar(n % 10)>>

\* to_string() of the magnitude of a value
to_string(v) ==
    IntToString(v.int) \o (IF v.frac = <<>> THEN <<>> ELSE <<".">> \o v.frac)

\* DecIter::new: (left, right) as the sequences the two iterators yield.
\* left yields the integer digits least significant first; right, when
\* present, the fractional digits nearest the decimal point first.
DecIter_new(s) ==
    LET dot == {i \in 1..Len(s) : s[i] = "."}
        cut == IF dot = {} THEN Len(s) + 1 ELSE CHOOSE i \in dot : \A j \in dot : i <= j
        left == SubSeq(s, 1, cut - 1)
        part == SubSeq(s, cut, Len(s))
        \* right.reverse(); right.pop() drops the decimal point
        right == IF part = <<>> THEN <<>> ELSE Take(Reverse(part), Len(part) - 1)
    IN  [left |-> Reverse(left),
         right |-> IF right = <<>> \/ right = <<"0">> THEN None ELSE Some(Reverse(right))]

(***************************************************************************)
(* impl Numeric for the unsigned integers, the signed integers and the     *)
(* floats.  A digit source is [kind, digits]: "Some" with the digits the   *)
(* iterator yields, "None" (base not available), "Panic" (the assertion of *)
(* $iter::new in a debug build) or "Diverge" (an iterator that never ends: *)
(* in a release build a negative n never shifts down to 0).                *)
(***************************************************************************)
SomeDigits(ds) == [kind |-> "Some", digits |-> ds]
NoDigits(k) == [kind |-> k, digits |-> <<>>]

is_negative(v) == IF v.ty = "unsigned" THEN FALSE ELSE v.neg

\* a faulty digit source: a float is read as its integer part
int_iter_float_as_int(v, width, debug) ==
    CASE v.ty = "signed" /\ v.neg -> NoDigits(IF debug THEN "Panic" ELSE "Diverge")
      [] OTHER -> SomeDigits(impl_iter(v.int, width))

int_iter(v, width, debug) ==
    CASE v.ty = "float" -> NoDigits("None")
      [] v.ty = "signed" /\ v.neg -> NoDigits(IF debug THEN "Panic" ELSE "Diverge")
      [] OTHER -> SomeDigits(impl_iter(v.int, width))

binary(v, debug) == int_iter(v, BinIter_WIDTH, debug)
octal(v, debug) == int_iter(v, OctIter_WIDTH, debug)
hex(v, debug) == int_iter(v, HexIter_WIDTH, debug)

\* a faulty decimal(): a value with no fractional digits gets the fraction "0"
decimal_point_zero(v) ==
    [DecIter_new(to_string(v)) EXCEPT !.right = IF @ = None THEN Some(<<"0">>) ELSE @]

\* DecIter::new(*self) / DecIter::new(self.abs())
decimal(v) == DecIter_new(to_string(v))

(***************************************************************************)
(* iterext's separate(separator, group_size), collected: the separator is  *)
(* put between groups of group_size items, counted from the first item     *)
(* (here the ones digit); no separator follows the last group.             *)
(***************************************************************************)
RECURSIVE separate(_, _, _)
separate(items, sep, group_size) ==
    IF Len(items) <= group_size THEN items
    ELSE SubSeq(items, 1, group_size) \o <<sep>>
         \o separate(SubSeq(items, group_size + 1, Len(items)), sep, group_size)

(***************************************************************************)
(* Builder: its Default, its setters and build().                          *)
(***************************************************************************)
Builder_default ==
    [fill |-> None, align |-> "Right", sign |-> "OnlyMinus", hash |-> FALSE,
     zero |-> FALSE, width |-> 0, precision |-> None, format |-> "Decimal",
     separator |-> None, spacing |-> None, decimal_separator |-> None]

Builder_fill(b, param) == [b EXCEPT !.fill = Some(param)]
Builder_align(b, param) == [b EXCEPT !.align = param]
Builder_sign(b, param) == [b EXCEPT !.sign = param]
Builder_hash(b, set) == [b EXCEPT !.hash = set]
\* a faulty zero(): zero(false) keeps the fill that was set earlier
Builder_zero_keeps_fill(b, set) ==
    IF set THEN [b EXCEPT !.fill = Some("0"), !.zero = TRUE]
    ELSE [b EXCEPT !.zero = FALSE]

Builder_zero(b, set) ==
    IF set THEN [b EXCEPT !.fill = Some("0"), !.zero = TRUE]
    ELSE [b EXCEPT !.fill = None, !.zero = FALSE]
Builder_width(b, param) == [b EXCEPT !.width = param]
Builder_precision(b, param) == [b EXCEPT !.precision = param]
Builder_base(b, param) == [b EXCEPT !.format = param]
Builder_separator(b, param) == [b EXCEPT !.separator = param]
Builder_spacing(b, param) == [b EXCEPT !.spacing = Some(param)]
Builder_decimal_separator(b, param) == [b EXCEPT !.decimal_separator = Some(param)]

\* Builder::build: the builder's zero is the NumFmt field this NumFmt reads
\* as include_sign_in_width
build(b) ==
    [fill |-> b.fill, align |-> b.align, sign |-> b.sign, hash |-> b.hash,
     include_sign_in_width |-> b.zero, width |-> b.width,
     precision |-> b.precision, base |-> b.format, separator |-> b.separator,
     spacing |-> b.spacing, decimal_separator |-> b.decimal_separator]

(***************************************************************************)
(* Dynamic: the per-call overrides.                                        *)
(***************************************************************************)
Dynamic_default == [width |-> None, precision |-> None, spacing |-> None]
\* W, P, S: Into<Option<usize>>; here given as bare numbers
Dynamic_new(w, p, s) == [width |-> Some(w), precision |-> Some(p), spacing |-> Some(s)]
Dynamic_width(w) == [Dynamic_default EXCEPT !.width = Some(w)]
Dynamic_precision(p) == [Dynamic_default EXCEPT !.precision = Some(p)]
Dynamic_spacing(s) == [Dynamic_default EXCEPT !.spacing = Some(s)]

(***************************************************************************)
(* NumFmt: accessors.                                                      *)
(***************************************************************************)
unwrap_or(opt, dflt) == IF opt = None THEN dflt ELSE opt[1]

NumFmt_fill(self) == unwrap_or(self.fill, " ")
NumFmt_align(self) == self.align
NumFmt_sign(self) == self.sign
NumFmt_hash(self) == self.hash
NumFmt_zero(self) == self.include_sign_in_width /\ NumFmt_fill(self) = "0"
NumFmt_width(self) == self.width
NumFmt_precision(self) == self.precision
NumFmt_base(self) == self.base
\* a faulty separator(): the default is a space
NumFmt_separator_space(self) == unwrap_or(self.separator, " ")
NumFmt_separator(self) == unwrap_or(self.separator, ",")
DefaultSpacing == 3
\* a faulty spacing(): the default group is one digit
NumFmt_spacing_one(self) == unwrap_or(self.spacing, 1)
NumFmt_spacing(self) == unwrap_or(self.spacing, DefaultSpacing)
NumFmt_decimal_separator(self) == unwrap_or(self.decimal_separator, ".")

\* a faulty width_with: the override is ignored
width_with_config_only(self, dyn) == self.width

width_with(self, dyn) == unwrap_or(dyn.width, self.width)
\* a faulty precision_with: the override is ignored
precision_with_config_only(self, dyn) == self.precision
precision_with(self, dyn) == IF dyn.precision # None THEN dyn.precision ELSE self.precision
spacing_with(self, dyn) == unwrap_or(dyn.spacing, NumFmt_spacing(self))

(***************************************************************************)
(* NumFmt::fmt_with, in the order of its code.                             *)
(***************************************************************************)
\* a faulty core: no decimal separator when no fractional digit follows it
core_no_bare_point(self, num, dyn, debug) ==
    LET separator == NumFmt_separator(self)
        spacing == spacing_with(self, dyn)
        grouped(src) ==
            IF src.kind # "Some" THEN [kind |-> src.kind, digits |-> <<>>, decimal_pos |-> None]
            ELSE [kind |-> "Some", digits |-> separate(src.digits, separator, spacing),
                  decimal_pos |-> None]
        upper(src) ==
            [src EXCEPT !.digits = [i \in 1..Len(src.digits) |-> to_ascii_uppercase(src.digits[i])]]
    IN  CASE NumFmt_base(self) = "Binary" -> grouped(binary(num, debug))
          [] NumFmt_base(self) = "Octal" -> grouped(octal(num, debug))
          [] NumFmt_base(self) = "Decimal" ->
                LET lr == decimal(num)
                    dq == separate(lr.left, separator, spacing)
                    dec == Len(dq)
                    precision == precision_with(self, dyn)
                    past_decimal ==
                        CASE lr.right # None /\ precision = None -> lr.right
                          [] lr.right # None /\ precision # None ->
                                Some(Take(lr.right[1] \o Repeat("0", precision[1]), precision[1]))
                          [] lr.right = None /\ precision # None ->
                                Some(Repeat("0", precision[1]))
                          [] OTHER -> None
                IN  [kind |-> "Some",
                     digits |-> IF past_decimal # None /\ past_decimal[1] # <<>>
                                THEN Reverse(past_decimal[1])
                                     \o <<NumFmt_decimal_separator(self)>> \o dq
                                ELSE dq,
                     decimal_pos |-> Some(dec)]
          [] NumFmt_base(self) = "LowerHex" -> grouped(hex(num, debug))
          [] NumFmt_base(self) = "UpperHex" -> grouped(upper(hex(num, debug)))

\* a faulty core: the fractional digits are grouped like the integer digits
core_grouping_fraction(self, num, dyn, debug) ==
    LET separator == NumFmt_separator(self)
        spacing == spacing_with(self, dyn)
        grouped(src) ==
            IF src.kind # "Some" THEN [kind |-> src.kind, digits |-> <<>>, decimal_pos |-> None]
            ELSE [kind |-> "Some", digits |-> separate(src.digits, separator, spacing),
                  decimal_pos |-> None]
        upper(src) ==
            [src EXCEPT !.digits = [i \in 1..Len(src.digits) |-> to_ascii_uppercase(src.digits[i])]]
    IN  CASE NumFmt_base(self) = "Binary" -> grouped(binary(num, debug))
          [] NumFmt_base(self) = "Octal" -> grouped(octal(num, debug))
          [] NumFmt_base(self) = "Decimal" ->
                LET lr == decimal(num)
                    dq == separate(lr.left, separator, spacing)
                    dec == Len(dq)
                    precision == precision_with(self, dyn)
                    past_decimal ==
                        CASE lr.right # None /\ precision = None -> lr.right
                          [] lr.right # None /\ precision # None ->
                                Some(Take(lr.right[1] \o Repeat("0", precision[1]), precision[1]))
                          [] lr.right = None /\ precision # None ->
                                Some(Repeat("0", precision[1]))
                          [] OTHER -> None
                IN  [kind |-> "Some",
                     digits |-> IF past_decimal # None
                                THEN separate(Reverse(past_decimal[1]), separator, spacing)
                                     \o <<NumFmt_decimal_separator(self)>> \o dq
                                ELSE dq,
                     decimal_pos |-> Some(dec)]
          [] NumFmt_base(self) = "LowerHex" -> grouped(hex(num, debug))
          [] NumFmt_base(self) = "UpperHex" -> grouped(upper(hex(num, debug)))

\* the digit source of the base, grouped: (digits, decimal_pos) with the
\* digits held as the VecDeque holds them, front first: the last fractional
\* digit, ..., the decimal separator, the ones digit, ..., the leading digit
core(self, num, dyn, debug) ==
    LET separator == NumFmt_separator(self)
        spacing == spacing_with(self, dyn)
        grouped(src) ==
            IF src.kind # "Some" THEN [kind |-> src.kind, digits |-> <<>>, decimal_pos |-> None]
            ELSE [kind |-> "Some", digits |-> separate(src.digits, separator, spacing),
                  decimal_pos |-> None]
        upper(src) ==
            [src EXCEPT !.digits = [i \in 1..Len(src.digits) |-> to_ascii_uppercase(src.digits[i])]]
    IN  CASE NumFmt_base(self) = "Binary" -> grouped(binary(num, debug))
          [] NumFmt_base(self) = "Octal" -> grouped(octal(num, debug))
          [] NumFmt_base(self) = "Decimal" ->
                LET lr == decimal(num)
                    dq == separate(lr.left, separator, spacing)
                    dec == Len(dq)
                    precision == precision_with(self, dyn)
                    past_decimal ==
                        CASE lr.right # None /\ precision = None -> lr.right
                          [] lr.right # None /\ precision # None ->
                                Some(Take(lr.right[1] \o Repeat("0", precision[1]), precision[1]))
                          [] lr.right = None /\ precision # None ->
                                Some(Repeat("0", precision[1]))
                          [] OTHER -> None
                IN  [kind |-> "Some",
                     digits |-> IF past_decimal # None
                                THEN Reverse(past_decimal[1])
                                     \o <<NumFmt_decimal_separator(self)>> \o dq
                                ELSE dq,
                     decimal_pos |-> Some(dec)]
          [] NumFmt_base(self) = "LowerHex" -> grouped(hex(num, debug))
          [] NumFmt_base(self) = "UpperHex" -> grouped(upper(hex(num, debug)))

\* a faulty sign_char: OnlyMinus shows no sign at all
sign_char_never_minus(self, negative) ==
    CASE NumFmt_sign(self) = "PlusAndMinus" -> Some(IF negative THEN "-" ELSE "+")
      [] OTHER -> None

sign_char(self, negative) ==
    CASE NumFmt_sign(self) = "PlusAndMinus" -> Some(IF negative THEN "-" ELSE "+")
      [] NumFmt_sign(self) = "OnlyMinus" /\ negative -> Some("-")
      [] OTHER -> None

\* a faulty prefix: UpperHex gets an uppercase "0X"
prefix_uppercase_x(self) ==
    CASE ~NumFmt_hash(self) -> None
      [] NumFmt_base(self) = "Binary" -> Some(<<"0", "b">>)
      [] NumFmt_base(self) = "Octal" -> Some(<<"0", "o">>)
      [] NumFmt_base(self) = "Decimal" -> Some(<<"0", "d">>)
      [] NumFmt_base(self) = "LowerHex" -> Some(<<"0", "x">>)
      [] OTHER -> Some(<<"0", "X">>)

prefix(self) ==
    CASE ~NumFmt_hash(self) -> None
      [] NumFmt_base(self) = "Binary" -> Some(<<"0", "b">>)
      [] NumFmt_base(self) = "Octal" -> Some(<<"0", "o">>)
      [] NumFmt_base(self) = "Decimal" -> Some(<<"0", "d">>)
      [] OTHER -> Some(<<"0", "x">>)

\* a faulty padding: Decimal alignment pads to the whole number's width, on the right
padding_decimal_as_left(self, width_used, decimal_pos, width_desired, sign, pre) ==
    LET unused_width == saturating_sub(width_desired, width_used)
        half_unused_width == unused_width \div 2
        by_align ==
            CASE NumFmt_align(self) = "Right" -> <<unused_width, 0>>
              [] NumFmt_align(self) = "Left" -> <<0, unused_width>>
              [] NumFmt_align(self) = "Center" ->
                    <<unused_width - half_unused_width, half_unused_width>>
              [] NumFmt_align(self) = "Decimal" -> <<0, unused_width>>
        after_sign ==
            IF sign # None /\ self.include_sign_in_width
            THEN saturating_sub(by_align[1], 1) ELSE by_align[1]
        after_prefix == IF pre # None THEN saturating_sub(after_sign, 2) ELSE after_sign
    IN  <<after_prefix, by_align[2]>>

\* a faulty padding: the sign is taken out of the padding whatever the zero flag
padding_sign_in_width(self, width_used, decimal_pos, width_desired, sign, pre) ==
    LET unused_width == saturating_sub(width_desired, width_used)
        half_unused_width == unused_width \div 2
        by_align ==
            CASE NumFmt_align(self) = "Right" -> <<unused_width, 0>>
              [] NumFmt_align(self) = "Left" -> <<0, unused_width>>
              [] NumFmt_align(self) = "Center" ->
                    <<unused_width - half_unused_width, half_unused_width>>
              [] NumFmt_align(self) = "Decimal" ->
                    <<saturating_sub(width_desired, decimal_pos), 0>>
        after_sign == IF sign # None THEN saturating_sub(by_align[1], 1) ELSE by_align[1]
        after_prefix == IF pre # None THEN saturating_sub(after_sign, 2) ELSE after_sign
    IN  <<after_prefix, by_align[2]>>

\* (padding_front, padding_rear) after the sign and prefix corrections
padding(self, width_used, decimal_pos, width_desired, sign, pre) ==
    LET unused_width == saturating_sub(width_desired, width_used)
        half_unused_width == unused_width \div 2
        by_align ==
            CASE NumFmt_align(self) = "Right" -> <<unused_width, 0>>
              [] NumFmt_align(self) = "Left" -> <<0, unused_width>>
              [] NumFmt_align(self) = "Center" ->
                    <<unused_width - half_unused_width, half_unused_width>>
              [] NumFmt_align(self) = "Decimal" ->
                    <<saturating_sub(width_desired, decimal_pos), 0>>
        after_sign ==
            IF sign # None /\ self.include_sign_in_width
            THEN saturating_sub(by_align[1], 1) ELSE by_align[1]
        after_prefix == IF pre # None THEN saturating_sub(after_sign, 2) ELSE after_sign
    IN  <<after_prefix, by_align[2]>>

\* the result: [kind |-> "Some", str |-> the rendered string], or kind "None"
\* (the base is not available), "Panic" or "Diverge" with no string
fmt_with(self, num, dyn, debug) ==
    LET negative == is_negative(num) /\ NumFmt_base(self) = "Decimal"
        c == core(self, num, dyn, debug)
        digits == c.digits
        decimal_pos == unwrap_or(c.decimal_pos, Len(digits))
        width_used == Len(digits)
        width_desired == width_with(self, dyn)
        sign == sign_char(self, negative)
        pre == prefix(self)
        pad == padding(self, width_used, decimal_pos, width_desired, sign, pre)
    IN  IF c.kind # "Some" THEN [kind |-> c.kind, str |-> <<>>]
        ELSE [kind |-> "Some",
              str |-> sign \o unwrap_or(pre, <<>>)
                      \o Repeat(NumFmt_fill(self), pad[1])
                      \o Reverse(digits)
                      \o Repeat(NumFmt_fill(self), pad[2])]

\* NumFmt::fmt
fmt_(self, num, debug) == fmt_with(self, num, Dynamic_default, debug)

(***************************************************************************)
(* parse / NumFmt::from_str: PARSE_RE's captures, then the builder calls.  *)
(***************************************************************************)
AlignChars == {"<", "^", ">", "v"}
SignChars == {"-", "+"}
NonZeroDigits == {"1", "2", "3", "4", "5", "6", "7", "8", "9"}
Digits == NonZeroDigits \cup {"0"}
FormatChars == {"b", "o", "d", "x", "X"}
RegexSeparatorChars == {"_", ",", " "}

At(s, i) == IF i >= 1 /\ i <= Len(s) THEN s[i] ELSE ""

\* the first position at or after i that holds no digit: the end of \d*
RECURSIVE DigitsEnd(_, _)
DigitsEnd(s, i) == IF At(s, i) \in Digits THEN DigitsEnd(s, i + 1) ELSE i

\* str::parse::<usize>() of a run of digits
RECURSIVE parse_usize(_)
parse_usize(ds) ==
    IF ds = <<>> THEN 0
    ELSE 10 * parse_usize(SubSeq(ds, 1, Len(ds) - 1))
         + (CHOOSE d \in 0..9 : DigitChar(d) = ds[Len(ds)])

\* the position after an optional single character of `set` at position p
SkipOne(s, p, set) == IF At(s, p) \in set THEN p + 1 ELSE p

\* the position after ((?P<fill>.)?(?P<align>[<^>v]))? at the start of s
AfterAlign(s) ==
    IF At(s, 2) \in AlignChars THEN 3 ELSE SkipOne(s, 1, AlignChars)

\* the start of the width digits in ((?P<zero>0)?(?P<width>[1-9]\d*))? at p
WidthStart(s, p) ==
    IF At(s, p) = "0" /\ At(s, p + 1) \in NonZeroDigits THEN p + 1 ELSE p

AfterWidth(s, p) ==
    IF At(s, WidthStart(s, p)) \in NonZeroDigits THEN DigitsEnd(s, WidthStart(s, p)) ELSE p

\* the position after (\.(?P<precision>\d+))? at p
AfterPrecision(s, p) ==
    IF At(s, p) = "." /\ At(s, p + 1) \in Digits THEN DigitsEnd(s, p + 1) ELSE p

\* the position after ((?P<separator>[_, ])(?P<spacing>\d+)?)? at p
AfterSeparator(s, p) ==
    IF At(s, p) \in RegexSeparatorChars THEN DigitsEnd(s, p + 1) ELSE p

\* the text of a group from position a up to (not including) position b
Group(s, a, b) == IF a < b THEN Some(SubSeq(s, a, b - 1)) ELSE None

\* PARSE_RE.captures(s): [matched, fill, align, sign, hash, zero, width,
\* precision, format, separator, spacing], each group an Option of its text
PARSE_RE(s) ==
    LET p1 == AfterAlign(s)
        p2 == SkipOne(s, p1, SignChars)
        p3 == SkipOne(s, p2, {"#"})
        p4 == AfterWidth(s, p3)
        p5 == AfterPrecision(s, p4)
        p6 == SkipOne(s, p5, FormatChars)
        p7 == AfterSeparator(s, p6)
    IN  [matched |-> p7 = Len(s) + 1,
         fill |-> Group(s, 1, p1 - 1),
         align |-> IF p1 = 1 THEN None ELSE Group(s, p1 - 1, p1),
         sign |-> Group(s, p1, p2),
         hash |-> Group(s, p2, p3),
         zero |-> IF p3 < p4 THEN Group(s, p3, WidthStart(s, p3)) ELSE None,
         width |-> IF p3 < p4 THEN Group(s, WidthStart(s, p3), p4) ELSE None,
         precision |-> Group(s, p4 + 1, p5),
         format |-> Group(s, p5, p6),
         separator |-> Group(s, p6, SkipOne(s, p6, RegexSeparatorChars)),
         spacing |-> Group(s, p6 + 1, p7)]

char_of(group) == IF group = None THEN None ELSE Some(group[1][1])

parse_align(b, ch) ==
    IF ch = None THEN b
    ELSE Builder_align(b, CASE ch[1] = "<" -> "Left" [] ch[1] = "^" -> "Center"
                            [] ch[1] = ">" -> "Right" [] ch[1] = "v" -> "Decimal")

parse_sign(b, ch) ==
    IF ch = None THEN b
    ELSE Builder_sign(b, IF ch[1] = "-" THEN "OnlyMinus" ELSE "PlusAndMinus")

parse_format(b, ch) ==
    IF ch = None THEN b
    ELSE Builder_base(b, CASE ch[1] = "b" -> "Binary" [] ch[1] = "o" -> "Octal"
                           [] ch[1] = "d" -> "Decimal" [] ch[1] = "x" -> "LowerHex"
                           [] ch[1] = "X" -> "UpperHex")

parse_fill(b, ch) == IF ch = None THEN b ELSE Builder_fill(b, ch[1])
parse_hash(b, ch) == IF ch = None THEN b ELSE Builder_hash(b, TRUE)
parse_zero_unconditional(b, ch) == Builder_zero(b, TRUE)
parse_zero(b, ch) == IF ch = None THEN b ELSE Builder_zero(b, TRUE)
parse_width(b, g) == IF g = None THEN b ELSE Builder_width(b, parse_usize(g[1]))
parse_precision(b, g) ==
    IF g = None THEN b ELSE Builder_precision(b, Some(parse_usize(g[1])))
parse_spacing(b, g) == IF g = None THEN b ELSE Builder_spacing(b, parse_usize(g[1]))

\* the builder after the calls parse() makes for the captures c
parse_builder(c) ==
    parse_spacing(
      Builder_separator(
        parse_format(
          parse_precision(
            parse_width(
              parse_zero(
                parse_hash(
                  parse_sign(
                    parse_align(
                      parse_fill(Builder_default, char_of(c.fill)),
                      char_of(c.align)),
                    char_of(c.sign)),
                  char_of(c.hash)),
                char_of(c.zero)),
              c.width),
            c.precision),
          char_of(c.format)),
        char_of(c.separator)),
      c.spacing)

\* parse(s): Ok(builder.build()) or Err(Error::NoMatch)
parse(s) ==
    IF PARSE_RE(s).matched THEN [kind |-> "Ok", fmt |-> build(parse_builder(PARSE_RE(s)))]
    ELSE [kind |-> "NoMatch", fmt |-> build(Builder_default)]

from_str(s) == parse(s)

\* format strings of the documentation and the tests
FormatStrings ==
    {<<>>,
     <<"-", "0", "3">>,
     <<"0", ">", "-", "3">>,
     <<"-", ">", "0", "5">>,
     <<"0", "5">>,
     <<"5">>,
     <<"2">>,
     <<"^", "0", "5">>,
     <<"<", "0", "5">>,
     <<"v", "0", "5">>,
     <<"v", "5">>,
     <<"#", "0", "4", "b">>,
     <<"#", "0", "4", "x", "_", "2">>,
     <<"0", "7", ",">>,
     <<"0", ">", "7", ",">>,
     <<"0", "9", "b", "_", "4">>,
     <<"+">>,
     <<"x">>,
     <<":", "^", "6">>,
     <<"-", "<", "6", ".", "2">>,
     <<"v", "0", "5", ".", "3">>,
     <<",">>}

(***************************************************************************)
(* The state machine: a Builder is configured by setter calls and built    *)
(* into a NumFmt, which then renders numbers.                              *)
(***************************************************************************)
NotCalled == [kind |-> "NotCalled", str |-> <<>>]

Dynamics ==
    {Dynamic_default}
    \cup {Dynamic_width(DynWidth), Dynamic_precision(MaxPrecision + 1),
          Dynamic_spacing(MaxSpacing + 2), Dynamic_new(0, 0, 1)}

Init ==
    /\ builder = Builder_default
    /\ nset = 0
    /\ fmt = build(Builder_default)
    /\ phase = "building"
    /\ number = Unsigned(0)
    /\ dynamic = Dynamic_default
    /\ result = NotCalled
    /\ calls = 0

Set(b) ==
    /\ phase = "building"
    /\ nset < MaxSetterCalls
    /\ builder' = b
    /\ nset' = nset + 1
    /\ UNCHANGED <<fmt, phase, number, dynamic, result, calls>>

SetFill == \E ch \in FillChars : Set(Builder_fill(builder, ch))
SetAlign == \E a \in Aligns : Set(Builder_align(builder, a))
SetSign == \E sg \in Signs : Set(Builder_sign(builder, sg))
SetHash == \E h \in BOOLEAN : Set(Builder_hash(builder, h))
SetZero == \E z \in BOOLEAN : Set(Builder_zero(builder, z))
SetWidth == \E w \in Widths : Set(Builder_width(builder, w))
SetPrecision ==
    \E p \in {None} \cup {Some(q) : q \in Precisions} : Set(Builder_precision(builder, p))
SetBase == \E f \in Bases : Set(Builder_base(builder, f))
SetSeparator ==
    \E sp \in {None} \cup {Some(ch) : ch \in SeparatorChars} :
        Set(Builder_separator(builder, sp))
SetSpacing == \E n \in Spacings : Set(Builder_spacing(builder, n))
SetDecimalSeparator ==
    \E ch \in DecimalSeparatorChars : Set(Builder_decimal_separator(builder, ch))

\* build(self) consumes the builder
Build ==
    /\ phase = "building"
    /\ fmt' = build(builder)
    /\ phase' = "built"
    /\ builder' = Builder_default
    /\ nset' = 0
    /\ UNCHANGED <<number, dynamic, result, calls>>

FromStr ==
    /\ phase = "building"
    /\ nset = 0
    /\ \E s \in FormatStrings :
          /\ from_str(s).kind = "Ok"
          /\ fmt' = from_str(s).fmt
    /\ phase' = "built"
    /\ UNCHANGED <<builder, nset, number, dynamic, result, calls>>

\* one call of fmt_with on the built NumFmt; fmt is borrowed, not changed
\* a faulty render: the width override is stored in the NumFmt
Render_storing_width(n, d, r) ==
    /\ calls < MaxCalls
    /\ number' = n
    /\ dynamic' = d
    /\ result' = r
    /\ phase' = "rendered"
    /\ calls' = calls + 1
    /\ fmt' = [fmt EXCEPT !.width = unwrap_or(d.width, fmt.width)]
    /\ UNCHANGED <<builder, nset>>

Render(n, d, r) ==
    /\ calls < MaxCalls
    /\ number' = n
    /\ dynamic' = d
    /\ result' = r
    /\ phase' = "rendered"
    /\ calls' = calls + 1
    /\ UNCHANGED <<builder, nset, fmt>>

\* the first call on a NumFmt
Fmt ==
    /\ phase = "built"
    /\ \E n \in Numbers, debug \in BOOLEAN : Render(n, Dynamic_default, fmt_(fmt, n, debug))

FmtWith ==
    /\ phase = "built"
    /\ \E n \in Numbers, d \in Dynamics, debug \in BOOLEAN :
          Render(n, d, fmt_with(fmt, n, d, debug))

\* a further call on the same NumFmt
FmtAgain ==
    /\ phase = "rendered"
    /\ \E n \in Numbers, debug \in BOOLEAN : Render(n, Dynamic_default, fmt_(fmt, n, debug))

FmtWithAgain ==
    /\ phase = "rendered"
    /\ \E n \in Numbers, d \in Dynamics, debug \in BOOLEAN :
          Render(n, d, fmt_with(fmt, n, d, debug))

\* every configuration a few setter calls or a format string reach, rendered once
Next ==
    \/ SetFill \/ SetAlign \/ SetSign \/ SetHash \/ SetZero \/ SetWidth
    \/ SetPrecision \/ SetBase \/ SetSeparator \/ SetSpacing \/ SetDecimalSeparator
    \/ Build \/ FromStr \/ Fmt \/ FmtWith

Spec == Init /\ [][Next]_vars

\* sequences of calls on the NumFmt of a format string
NextSeq == FromStr \/ Fmt \/ FmtWith \/ FmtAgain \/ FmtWithAgain

SpecSeq == Init /\ [][NextSeq]_vars
(***************************************************************************)
(* Vocabulary of the properties.                                           *)
(***************************************************************************)
Rendered == phase = "rendered"
Ok == result.kind = "Some"
Max(a, b) == IF a > b THEN a ELSE b
Count(s, ch) == Cardinality({i \in 1..Len(s) : s[i] = ch})

\* the effective width of the last call
EffWidth == IF dynamic.width # None THEN dynamic.width[1] ELSE fmt.width

\* the parts of the last call's rendering, as the code computes them
Negative == is_negative(number) /\ fmt.base = "Decimal"
SignOf == sign_char(fmt, Negative)
PrefixOf == unwrap_or(prefix(fmt), <<>>)
DigitsOf == Reverse(core(fmt, number, dynamic, TRUE).digits)

\* the rendering with no padding at all
Unpadded == SignOf \o PrefixOf \o DigitsOf

\* the zero flag as the builder set it, and as NumFmt::zero reports it
ZeroFlag == NumFmt_zero(fmt)

FmtOf(s) == from_str(s).fmt

(***************************************************************************)
(* C1: a render call on a configuration with the zero flag and alignment   *)
(* Left or Center returns the error IncompatibleAlignment and no string;   *)
(* with Right or Decimal it never returns that error.                      *)
(***************************************************************************)
C1_ZeroFlagNeedsRightOrDecimal ==
    Rendered =>
        /\ (ZeroFlag /\ fmt.align \in {"Left", "Center"}) =>
                (result.kind = "IncompatibleAlignment" /\ result.str = <<>>)
        /\ fmt.align \in {"Right", "Decimal"} => result.kind # "IncompatibleAlignment"

(***************************************************************************)
(* C2: rendering a float in Binary, Octal, LowerHex or UpperHex returns a  *)
(* failure value and no string, whatever the value and the other fields    *)
(* are; rendering in Decimal never fails.                                  *)
(***************************************************************************)
C2_FloatHasOnlyDecimal ==
    Rendered =>
        /\ (number.ty = "float" /\ fmt.base # "Decimal") =>
                (result.kind = "None" /\ result.str = <<>>)
        /\ fmt.base = "Decimal" => result.kind = "Some"

C2_Witness ==
    /\ Rendered
    /\ number = Float(TRUE, 1, <<"1">>)
    /\ fmt.base = "LowerHex"
    /\ fmt.width > 0
    /\ result.kind = "None"

(***************************************************************************)
(* C3: width is a minimum and never truncates: the rendered length is at   *)
(* least the unpadded length, and whenever the effective width is at most  *)
(* the unpadded length the output is exactly the unpadded rendering.       *)
(***************************************************************************)
C3_WidthIsAMinimum ==
    (Rendered /\ Ok) =>
        /\ Len(result.str) >= Len(Unpadded)
        /\ EffWidth <= Len(Unpadded) => result.str = Unpadded

(***************************************************************************)
(* C4: with the zero flag, Right alignment and no separator, the sign and  *)
(* the prefix are inside the width budget: the output is sign, prefix, '0' *)
(* padding, digits, and its length is max(effective width, natural         *)
(* length); "-03" on -1 gives "-01", "05" on -1 gives "-0001".             *)
(***************************************************************************)
\* the digits with no grouping: a group larger than any digit count
Ungrouped ==
    Reverse(core(fmt, number, [dynamic EXCEPT !.spacing = Some(NoGrouping)], TRUE).digits)

NoSeparator == fmt.separator = None /\ fmt.spacing = None /\ dynamic.spacing = None

C4_ZeroFlagBudget ==
    (Rendered /\ Ok) =>
        /\ (ZeroFlag /\ fmt.align = "Right" /\ NoSeparator) =>
              LET natural == SignOf \o PrefixOf \o Ungrouped
                  zeros == saturating_sub(EffWidth, Len(natural))
              IN  /\ result.str = SignOf \o PrefixOf \o Repeat("0", zeros) \o Ungrouped
                  /\ Len(result.str) = Max(EffWidth, Len(natural))
        /\ (fmt = FmtOf(<<"-", "0", "3">>) /\ number = Signed(-1) /\ dynamic = Dynamic_default)
              => result.str = <<"-", "0", "1">>
        /\ (fmt = FmtOf(<<"0", "5">>) /\ number = Signed(-1) /\ dynamic = Dynamic_default)
              => result.str = <<"-", "0", "0", "0", "1">>

(***************************************************************************)
(* C5: with an explicit fill and the zero flag not set, the sign is not    *)
(* part of the width: the output is the sign followed by the rendering of  *)
(* the magnitude padded to the full width; "0>-3" on -1 gives "-001" and   *)
(* the zero-flag format "-03" on -1 gives "-01".                           *)
(***************************************************************************)
\* the sign the last call has to show
ShownSign ==
    CASE is_negative(number) /\ fmt.base = "Decimal" -> <<"-">>
      [] fmt.sign = "PlusAndMinus" -> <<"+">>
      [] OTHER -> <<>>

\* the last call's rendering of the magnitude with no sign
Unsigned_str ==
    fmt_with([fmt EXCEPT !.sign = "OnlyMinus"], [number EXCEPT !.neg = FALSE], dynamic, TRUE).str

C5_ExplicitFillExcludesSign ==
    (Rendered /\ Ok) =>
        /\ (~fmt.include_sign_in_width /\ fmt.fill # None) =>
              /\ result.str = ShownSign \o Unsigned_str
              /\ fmt.align = "Right" =>
                    Len(result.str) =
                        Len(ShownSign) + Max(EffWidth, Len(PrefixOf) + Len(DigitsOf))
        /\ (number = Signed(-1) /\ dynamic = Dynamic_default
                /\ fmt = FmtOf(<<"0", ">", "-", "3">>))
              => result.str = <<"-", "0", "0", "1">>
        /\ (number = Signed(-1) /\ dynamic = Dynamic_default /\ fmt = FmtOf(<<"-", "0", "3">>))
              => result.str = <<"-", "0", "1">>

C5_Witness ==
    /\ Rendered
    /\ fmt = FmtOf(<<"0", ">", "-", "3">>)
    /\ ~fmt.include_sign_in_width /\ fmt.fill = Some("0")
    /\ number = Signed(-1)
    /\ result.str = <<"-", "0", "0", "1">>

(***************************************************************************)
(* C6: with the zero flag off and alignment Left, Right or Center, sign    *)
(* and prefix count toward the width: the output has max(effective width,  *)
(* sign + prefix + digits) characters, and for Right alignment the fill    *)
(* comes before the sign (width 5 on -1 gives "   -1").                    *)
(***************************************************************************)
C6_SignAndPrefixInWidth ==
    (Rendered /\ Ok /\ ~fmt.include_sign_in_width
        /\ fmt.align \in {"Left", "Right", "Center"}) =>
        LET total == Max(EffWidth, Len(Unpadded))
            fills == Repeat(NumFmt_fill(fmt), total - Len(Unpadded))
        IN  /\ Len(result.str) = total
            /\ fmt.align = "Right" => result.str = fills \o Unpadded
            /\ fmt.align = "Left" => result.str = Unpadded \o fills

(***************************************************************************)
(* C7: with the zero flag and grouping, the zero padding is grouped with   *)
(* the digits and the overshoot is trimmed, so the length never exceeds    *)
(* max(effective width, natural length): "07," on 1 gives "000,001",       *)
(* "09b_4" on 13 gives "0000_1101", "#04x_2" on 0 gives "0x00" and with    *)
(* the dynamic width 7 "0x00_00".                                          *)
(***************************************************************************)
C7_GroupedZeroPadding ==
    (Rendered /\ Ok) =>
        /\ (ZeroFlag /\ fmt.align = "Right" /\ fmt.separator # None) =>
              Len(result.str) <= Max(EffWidth, Len(Unpadded))
        /\ (fmt = FmtOf(<<"0", "7", ",">>) /\ number = Unsigned(1)
                /\ dynamic = Dynamic_default)
              => result.str = <<"0", "0", "0", ",", "0", "0", "1">>
        /\ (fmt = FmtOf(<<"0", "9", "b", "_", "4">>) /\ number = Unsigned(13)
                /\ dynamic = Dynamic_default)
              => result.str = <<"0", "0", "0", "0", "_", "1", "1", "0", "1">>
        /\ (fmt = FmtOf(<<"#", "0", "4", "x", "_", "2">>) /\ number = Unsigned(0)
                /\ dynamic = Dynamic_default)
              => result.str = <<"0", "x", "0", "0">>
        /\ (fmt = FmtOf(<<"#", "0", "4", "x", "_", "2">>) /\ number = Unsigned(0)
                /\ dynamic = Dynamic_width(DynWidth) /\ DynWidth = 7)
              => result.str = <<"0", "x", "0", "0", "_", "0", "0">>

(***************************************************************************)
(* C8: an override, when present, replaces the configuration's width,      *)
(* precision or spacing, each on its own: fmt_with(v, overrides) on a      *)
(* configuration is fmt(v) on the configuration with exactly the           *)
(* overridden fields replaced, and fmt(v) is fmt_with(v, all absent).      *)
(***************************************************************************)
Overridden(self, dyn) ==
    [self EXCEPT !.width = IF dyn.width # None THEN dyn.width[1] ELSE @,
                 !.precision = IF dyn.precision # None THEN dyn.precision ELSE @,
                 !.spacing = IF dyn.spacing # None THEN dyn.spacing ELSE @]

C8_OverridesWin ==
    Rendered =>
        /\ \E debug \in BOOLEAN : result = fmt_(Overridden(fmt, dynamic), number, debug)
        /\ dynamic = Dynamic_default =>
              \E debug \in BOOLEAN : result = fmt_with(fmt, number, Dynamic_default, debug)

C8_Witness ==
    /\ Rendered /\ Ok
    /\ dynamic = Dynamic_width(DynWidth)
    /\ fmt.width < DynWidth
    /\ Len(result.str) = DynWidth
    /\ Overridden(fmt, dynamic) # fmt

FillCount == Len(result.str) - Len(ShownSign) - Len(PrefixOf) - Len(DigitsOf)
Fills(ch) == IF NumFmt_fill(fmt) = ch THEN FillCount ELSE 0
Signs_(ch) == IF ShownSign = <<ch>> THEN 1 ELSE 0

C11_NoSeparatorNoGrouping ==
    (Rendered /\ Ok) =>
        /\ fmt.separator = None => DigitsOf = Ungrouped
        /\ (fmt = FmtOf(<<>>) /\ number = Unsigned(1234) /\ dynamic = Dynamic_default)
              => result.str = <<"1", "2", "3", "4">>

(***************************************************************************)
(* Vocabulary of the grouping properties.                                  *)
(***************************************************************************)
\* the group size of the last call
EffSpacing ==
    CASE dynamic.spacing # None -> dynamic.spacing[1]
      [] fmt.spacing # None -> fmt.spacing[1]
      [] OTHER -> DefaultSpacing

\* the number of integer-part digits of the last call, and those digits,
\* leading digit first, with no grouping
IntLen ==
    LET c == core(fmt, number, [dynamic EXCEPT !.spacing = Some(NoGrouping)], TRUE)
    IN  unwrap_or(c.decimal_pos, Len(c.digits))
UngroupedInt == SubSeq(Ungrouped, 1, IntLen)

\* what follows the integer part: the decimal separator and the fraction
TailOf == SubSeq(Ungrouped, IntLen + 1, Len(Ungrouped))

\* ds, leading digit first, in groups of n counted from its last digit
RECURSIVE Grouped(_, _, _)
Grouped(ds, sep, n) ==
    IF Len(ds) <= n THEN ds
    ELSE Grouped(SubSeq(ds, 1, Len(ds) - n), sep, n) \o <<sep>>
         \o SubSeq(ds, Len(ds) - n + 1, Len(ds))

\* the output is sign, prefix, fill, body, fill
Laid(body) ==
    \E a \in 0..Len(result.str) :
        LET b == Len(result.str) - a - Len(ShownSign) - Len(PrefixOf) - Len(body)
        IN  /\ b >= 0
            /\ result.str = ShownSign \o PrefixOf \o Repeat(NumFmt_fill(fmt), a)
                            \o body \o Repeat(NumFmt_fill(fmt), b)

GroupedLen(k, n) == IF k = 0 THEN 0 ELSE k + (k - 1) \div n

\* ds, leading digit first, with sep at every (n + 1)-th place from the right
FromOnes(ds, sep, n) ==
    [i \in 1..GroupedLen(Len(ds), n) |->
        LET j == GroupedLen(Len(ds), n) - i + 1
        IN  IF j % (n + 1) = 0 THEN sep
            ELSE ds[Len(ds) - (j - j \div (n + 1)) + 1]]

C13_GroupsCountedFromOnes ==
    (Rendered /\ Ok /\ fmt.separator # None) =>
        Laid(FromOnes(UngroupedInt, fmt.separator[1], EffSpacing) \o TailOf)

C13_Witness ==
    /\ Rendered /\ Ok
    /\ fmt.separator = Some("_") /\ fmt.spacing = None /\ dynamic.spacing = None
    /\ number = Unsigned(1234)
    /\ result.str = <<"1", "_", "2", "3", "4">>

(***************************************************************************)
(* Vocabulary of the fraction properties.                                  *)
(***************************************************************************)
DecimalDigits == {"0", "1", "2", "3", "4", "5", "6", "7", "8", "9"}

\* the precision of the last call
EffPrecision == IF dynamic.precision # None THEN dynamic.precision ELSE fmt.precision

\* a fractional part is rendered
FracShown == fmt.base = "Decimal" /\ (EffPrecision # None \/ number.frac # <<>>)

\* the fractional digits to render: the value's, cut or extended by '0'
ExpectedFrac ==
    IF EffPrecision = None THEN number.frac
    ELSE Take(number.frac \o Repeat("0", EffPrecision[1]), EffPrecision[1])

\* the output ends with t and b fill characters, the ones digit before them
EndsWith(t) ==
    \E b \in 0..Len(result.str) :
        LET n == Len(result.str)
            from == n - b - Len(t)
        IN  /\ from >= 1
            /\ result.str[from] \in DecimalDigits
            /\ SubSeq(result.str, from + 1, n) = t \o Repeat(NumFmt_fill(fmt), b)

(***************************************************************************)
(* C14: the fractional digits are never grouped: whatever the value, the   *)
(* separator, the spacing and the precision, what follows the ones digit   *)
(* is the decimal separator, then the fractional digits with nothing       *)
(* between them, then only fill.                                           *)
(***************************************************************************)
C14_FractionNotGrouped ==
    (Rendered /\ Ok /\ FracShown) =>
        /\ \A i \in 1..Len(ExpectedFrac) : ExpectedFrac[i] \in DecimalDigits
        /\ EndsWith(<<NumFmt_decimal_separator(fmt)>> \o ExpectedFrac)

C14_Witness ==
    /\ Rendered /\ Ok
    /\ fmt.separator = Some("_") /\ EffSpacing = 1
    /\ number = Float(FALSE, 12, <<"2", "5">>)
    /\ result.str = <<"1", "_", "2", ".", "2", "5">>

(***************************************************************************)
(* C15: with a precision p in effect (configured or overridden) and base   *)
(* Decimal, exactly p digits follow the decimal separator: the value's     *)
(* fractional digits cut to p, or extended to p with '0' whatever the fill *)
(* is; an integer gets p zeros ("-<6.2" on 3.0 gives "3.00--").            *)
(***************************************************************************)
C15_ExactlyPrecisionDigits ==
    (Rendered /\ Ok) =>
        /\ (fmt.base = "Decimal" /\ EffPrecision # None) =>
              \E b \in 0..Len(result.str) :
                  LET p == EffPrecision[1]
                      dot == Len(result.str) - b - p
                  IN  /\ dot >= 2
                      /\ result.str[dot - 1] \in DecimalDigits
                      /\ result.str[dot] = NumFmt_decimal_separator(fmt)
                      /\ \A i \in 1..p :
                            result.str[dot + i] =
                                IF i <= Len(number.frac) THEN number.frac[i] ELSE "0"
                      /\ \A i \in 1..b : result.str[dot + p + i] = NumFmt_fill(fmt)
                      /\ fmt.align \in {"Right", "Decimal"} => b = 0
        /\ (number = Float(FALSE, 3, <<>>) /\ dynamic = Dynamic_default
                /\ fmt = FmtOf(<<"-", "<", "6", ".", "2">>))
              => result.str = <<"3", ".", "0", "0", "-", "-">>

C15_Witness ==
    /\ Rendered /\ Ok
    /\ fmt = FmtOf(<<"-", "<", "6", ".", "2">>)
    /\ NumFmt_fill(fmt) = "-" /\ EffPrecision = Some(2)
    /\ number = Float(FALSE, 3, <<>>)
    /\ result.str = <<"3", ".", "0", "0", "-", "-">>

(***************************************************************************)
(* C16: with no precision in effect the fractional digits are the ones the *)
(* value printed, unchanged; a value with none (every integer, and a float *)
(* with an integral value such as 3.0) gets no decimal separator: the      *)
(* output ends with its ones digit and fill.                               *)
(***************************************************************************)
C16_NoPrecisionPassesThrough ==
    (Rendered /\ Ok /\ EffPrecision = None) =>
        /\ (fmt.base = "Decimal" /\ number.frac # <<>>) =>
              EndsWith(<<NumFmt_decimal_separator(fmt)>> \o number.frac)
        /\ (fmt.base = "Decimal" /\ number.frac = <<>>) => EndsWith(<<>>)
        /\ ((fmt.base # "Decimal" \/ number.frac = <<>>)
                /\ NumFmt_decimal_separator(fmt) \notin {NumFmt_separator(fmt), NumFmt_fill(fmt)})
              => Count(result.str, NumFmt_decimal_separator(fmt)) = 0

C16_Witness ==
    /\ Rendered /\ Ok
    /\ EffPrecision = None
    /\ fmt.base = "Decimal"
    /\ number = Float(FALSE, 3, <<>>)
    /\ result.str = <<"3">>

(***************************************************************************)
(* C17: with Decimal alignment nothing is padded on the right and the      *)
(* decimal separator stands at column `width`: the characters before it    *)
(* (padding, sign, prefix, grouped integer part) number exactly            *)
(* max(effective width, natural count), however many fractional digits     *)
(* follow ("v5" on 1.1 gives "    1.1", "v05" on -1.1 gives "-0001.1").    *)
(***************************************************************************)
\* the length of the grouped integer part of the last call, and of what follows it
GroupedIntLen ==
    LET c == core(fmt, number, dynamic, TRUE)
    IN  unwrap_or(c.decimal_pos, Len(c.digits))
FractionLen == Len(DigitsOf) - GroupedIntLen

C17_DecimalSeparatorAtWidth ==
    (Rendered /\ Ok) =>
        /\ fmt.align = "Decimal" =>
              LET n == Len(result.str)
              IN  /\ n >= FractionLen
                  /\ SubSeq(result.str, n - FractionLen + 1, n)
                        = SubSeq(DigitsOf, GroupedIntLen + 1, Len(DigitsOf))
                  /\ n - FractionLen
                        = Max(EffWidth, Len(ShownSign) + Len(PrefixOf) + GroupedIntLen)
        /\ (fmt = FmtOf(<<"v", "5">>) /\ number = Float(FALSE, 1, <<"1">>)
                /\ dynamic = Dynamic_default)
              => result.str = <<" ", " ", " ", " ", "1", ".", "1">>
        /\ (fmt = FmtOf(<<"v", "0", "5">>) /\ number = Float(TRUE, 1, <<"1">>)
                /\ dynamic = Dynamic_default)
              => result.str = <<"-", "0", "0", "0", "1", ".", "1">>

(***************************************************************************)
(* C18 as stated: for an integer, Decimal alignment and Right alignment    *)
(* render the same string, whatever the other fields and the overrides.    *)
(***************************************************************************)
IsInteger == number.ty \in {"unsigned", "signed"}

\* the last call's result is what the same call returns under alignment a
SameUnder(a) ==
    \E debug \in BOOLEAN : result = fmt_with([fmt EXCEPT !.align = a], number, dynamic, debug)

C19_ZeroFlagForcesZeroPadding ==
    (Rendered /\ Ok /\ fmt.include_sign_in_width) =>
        \E a \in 0..Len(result.str) :
            LET b == Len(result.str) - a - Len(ShownSign) - Len(PrefixOf) - Len(DigitsOf)
            IN  /\ b >= 0
                /\ result.str = ShownSign \o PrefixOf \o Repeat("0", a)
                                \o DigitsOf \o Repeat("0", b)

(***************************************************************************)
(* C20: the value zero renders as the digit '0' in every base: where the   *)
(* digit source yields nothing the number is a single '0', never empty     *)
(* ("#04x_2" on 0 gives "0x00").                                           *)
(***************************************************************************)
C20_ZeroRendersAsZero ==
    (Rendered /\ Ok) =>
        /\ (number.int = 0 /\ number.frac = <<>>) => Laid(<<"0">> \o TailOf)
        /\ (fmt = FmtOf(<<"#", "0", "4", "x", "_", "2">>) /\ number = Unsigned(0)
                /\ dynamic = Dynamic_default)
              => result.str = <<"0", "x", "0", "0">>


(***************************************************************************)
(* C21: a render call always returns, a string or an error value: it       *)
(* never panics and never runs forever, for every supported value          *)
(* (negative signed integers in Binary, Octal or hex included) and every   *)
(* accepted configuration.                                                 *)
(***************************************************************************)
C21_RenderAlwaysReturns ==
    Rendered => result.kind \in {"Some", "None"}


(***************************************************************************)
(* C22: parsing the empty format string succeeds and yields all defaults   *)
(* (fill space, Right, OnlyMinus, no hash, no zero flag, width 0, no       *)
(* precision, Decimal, no separator, decimal separator '.'): the           *)
(* configuration a fresh Builder builds with no setter called.             *)
(***************************************************************************)
C22_EmptyStringIsDefault ==
    /\ from_str(<<>>).kind = "Ok"
    /\ (phase = "building" /\ nset = 0) => build(builder) = from_str(<<>>).fmt
    /\ (phase # "building" /\ fmt = from_str(<<>>).fmt) =>
          /\ NumFmt_fill(fmt) = " "
          /\ NumFmt_align(fmt) = "Right"
          /\ NumFmt_sign(fmt) = "OnlyMinus"
          /\ ~NumFmt_hash(fmt)
          /\ ~NumFmt_zero(fmt)
          /\ NumFmt_width(fmt) = 0
          /\ NumFmt_precision(fmt) = None
          /\ NumFmt_base(fmt) = "Decimal"
          /\ fmt.separator = None
          /\ NumFmt_decimal_separator(fmt) = "."

C22_Witness ==
    /\ Rendered /\ Ok
    /\ fmt = from_str(<<>>).fmt
    /\ fmt = build(Builder_default)
    /\ number = Unsigned(13) /\ dynamic = Dynamic_default
    /\ result.str = <<"1", "3">>


(***************************************************************************)
(* C23: the output is assembled in a fixed order: with the zero flag it is *)
(* sign, prefix, left padding, digits; without it, left padding, sign,     *)
(* prefix, digits, right padding, so that no fill character stands between *)
(* the sign or prefix and the first digit.                                 *)
(***************************************************************************)
C23_AssemblyOrder ==
    (Rendered /\ Ok) =>
        \E a \in 0..Len(result.str) :
            LET pad == Repeat(NumFmt_fill(fmt), a)
                b == Len(result.str) - a - Len(ShownSign) - Len(PrefixOf) - Len(DigitsOf)
            IN  IF ZeroFlag
                THEN result.str = ShownSign \o PrefixOf \o pad \o DigitsOf
                ELSE /\ b >= 0
                     /\ result.str = pad \o ShownSign \o PrefixOf \o DigitsOf
                                     \o Repeat(NumFmt_fill(fmt), b)


BasePrefix ==
    CASE fmt.base = "Binary" -> <<"0", "b">>
      [] fmt.base = "Octal" -> <<"0", "o">>
      [] fmt.base = "Decimal" -> <<"0", "d">>
      [] fmt.base \in {"LowerHex", "UpperHex"} -> <<"0", "x">>

C25_PrefixIffHash ==
    (Rendered /\ Ok) =>
        \E a \in 0..Len(result.str) :
            LET b == Len(result.str) - a - Len(ShownSign) - Len(DigitsOf)
                      - (IF fmt.hash THEN 2 ELSE 0)
            IN  /\ b >= 0
                /\ result.str = ShownSign \o (IF fmt.hash THEN BasePrefix ELSE <<>>)
                                \o Repeat(NumFmt_fill(fmt), a) \o DigitsOf
                                \o Repeat(NumFmt_fill(fmt), b)

C25_Witness ==
    /\ Rendered /\ Ok
    /\ fmt.hash /\ fmt.base = "UpperHex" /\ fmt.sign = "PlusAndMinus"
    /\ number = Unsigned(13)
    /\ result.str = <<"+", "0", "x", "D">>


(***************************************************************************)
(* C26: Builder.zero(true) sets the zero flag and the fill '0';            *)
(* Builder.zero(false) clears the zero flag and resets the fill to the     *)
(* default (space), whatever fill was set before; both leave every other   *)
(* field of the builder unchanged; and build() yields a NumFmt after any   *)
(* sequence of setter calls.                                               *)
(***************************************************************************)
ZeroEffect(z) ==
    /\ builder'.zero = z
    /\ builder'.fill = (IF z THEN Some("0") ELSE None)
    /\ NumFmt_fill(build(builder')) = (IF z THEN "0" ELSE " ")
    /\ NumFmt_zero(build(builder')) = z
    /\ \A f \in DOMAIN builder \ {"zero", "fill"} : builder'[f] = builder[f]
    /\ DOMAIN builder' = DOMAIN builder

BuildSucceeds ==
    /\ fmt'.include_sign_in_width = builder.zero
    /\ fmt'.base = builder.format
    /\ \A f \in DOMAIN builder \ {"zero", "format"} : fmt'[f] = builder[f]

C26_ZeroSetterFrame ==
    [][/\ SetZero => \E z \in BOOLEAN : ZeroEffect(z)
       /\ \A z \in BOOLEAN :
             (phase = "building" /\ nset < MaxSetterCalls) =>
                 ENABLED (builder' = Builder_zero(builder, z) /\ ZeroEffect(z))
       /\ phase = "building" => ENABLED Build
       /\ Build => BuildSucceeds]_vars

C26_Witness ==
    /\ phase = "built"
    /\ fmt.include_sign_in_width /\ fmt.fill = Some("0")
    /\ fmt.align = "Center" /\ fmt.width = MaxWidth


(***************************************************************************)
(* C27: every character of the composed number, before sign, prefix and    *)
(* padding are added, is legal for the base: 0-1 in Binary, 0-7 in Octal,  *)
(* 0-9 in Decimal, 0-9a-f in LowerHex and 0-9A-F in UpperHex, or else the  *)
(* grouping separator or, in Decimal only, the decimal separator; and the  *)
(* UpperHex output is the LowerHex output with a-f in upper case.          *)
(***************************************************************************)
LegalDigits ==
    CASE fmt.base = "Binary" -> {"0", "1"}
      [] fmt.base = "Octal" -> {"0", "1", "2", "3", "4", "5", "6", "7"}
      [] fmt.base = "Decimal" -> DecimalDigits
      [] fmt.base = "LowerHex" -> DecimalDigits \cup {"a", "b", "c", "d", "e", "f"}
      [] fmt.base = "UpperHex" -> DecimalDigits \cup {"A", "B", "C", "D", "E", "F"}

LegalChars ==
    LegalDigits \cup {NumFmt_separator(fmt)}
    \cup (IF fmt.base = "Decimal" THEN {NumFmt_decimal_separator(fmt)} ELSE {})

Uppercased(s) ==
    LET up == [c \in {"a", "b", "c", "d", "e", "f"} |->
                  CASE c = "a" -> "A" [] c = "b" -> "B" [] c = "c" -> "C"
                    [] c = "d" -> "D" [] c = "e" -> "E" [] c = "f" -> "F"]
    IN  [i \in 1..Len(s) |-> IF s[i] \in DOMAIN up THEN up[s[i]] ELSE s[i]]

C27_LegalCharacters ==
    (Rendered /\ Ok) =>
        /\ LET composed == DigitsOf
               legal == LegalChars
           IN  \A i \in 1..Len(composed) : composed[i] \in legal
        /\ fmt.base = "UpperHex" =>
              result.str =
                  Uppercased(fmt_with([fmt EXCEPT !.base = "LowerHex"],
                                      number, dynamic, TRUE).str)

C27_Witness ==
    /\ Rendered /\ Ok
    /\ fmt.base = "UpperHex" /\ number = Unsigned(1234)
    /\ result.str = <<"4", "_", "D", "2">>


(***************************************************************************)
(* C28: for every integer n >= 1 BinIter, OctIter, HexIter and the left    *)
(* DecIter yield the digits of n least significant first, finitely many    *)
(* and with no leading zero: reversed they are the standard base 2, 8,     *)
(* lowercase 16 and 10 representation of n; and an integer has no right    *)
(* (fractional) DecIter.                                                   *)
(***************************************************************************)
DigitValue ==
    [c \in DecimalDigits \cup {"a", "b", "c", "d", "e", "f"} |->
        CASE c = "0" -> 0 [] c = "1" -> 1 [] c = "2" -> 2 [] c = "3" -> 3
          [] c = "4" -> 4 [] c = "5" -> 5 [] c = "6" -> 6 [] c = "7" -> 7
          [] c = "8" -> 8 [] c = "9" -> 9 [] c = "a" -> 10 [] c = "b" -> 11
          [] c = "c" -> 12 [] c = "d" -> 13 [] c = "e" -> 14 [] c = "f" -> 15]

\* the number that the digits ds, least significant first, denote in the radix
RECURSIVE Denotes(_, _)
Denotes(ds, radix) ==
    IF ds = <<>> THEN 0
    ELSE DigitValue[Head(ds)] + radix * Denotes(Tail(ds), radix)

\* ds is the standard representation of n, least significant digit first
Represents(ds, radix, n) ==
    /\ ds # <<>>
    /\ \A i \in 1..Len(ds) : ds[i] \in DOMAIN DigitValue /\ DigitValue[ds[i]] < radix
    /\ ds[Len(ds)] # "0"
    /\ Denotes(ds, radix) = n

C28_DigitsLeastSignificantFirst ==
    (Rendered /\ number.ty # "float" /\ ~number.neg /\ number.int >= 1) =>
        \A debug \in BOOLEAN :
            /\ binary(number, debug).kind = "Some"
            /\ Represents(binary(number, debug).digits, 2, number.int)
            /\ octal(number, debug).kind = "Some"
            /\ Represents(octal(number, debug).digits, 8, number.int)
            /\ hex(number, debug).kind = "Some"
            /\ Represents(hex(number, debug).digits, 16, number.int)
            /\ Represents(decimal(number).left, 10, number.int)
            /\ decimal(number).right = None

C28_Witness ==
    /\ Rendered /\ Ok
    /\ number = Unsigned(1234) /\ fmt.base = "LowerHex"
    /\ hex(number, FALSE).digits = <<"2", "d", "4">>
    /\ result.str = <<"4", "d", "2">>


(***************************************************************************)
(* C29: the rendered number never begins with a grouping separator and     *)
(* never has two adjacent separators: for every value, spacing >= 1 and    *)
(* width, the first character after the sign, the prefix and the fill      *)
(* padding is a digit, also when the number of integer digits is a         *)
(* multiple of the spacing.                                                *)
(***************************************************************************)
C29_NumberStartsWithDigit ==
    (Rendered /\ Ok) =>
        /\ DigitsOf # <<>>
        /\ Head(DigitsOf) \in LegalDigits
        /\ \A i \in 1..(Len(DigitsOf) - 1) :
              ~(DigitsOf[i] = NumFmt_separator(fmt) /\ DigitsOf[i + 1] = NumFmt_separator(fmt))
        /\ Laid(DigitsOf)


(***************************************************************************)
(* C30: in Decimal the decimal separator is emitted exactly once when the  *)
(* digit source yields a fractional sequence or a precision is in effect,  *)
(* and not at all otherwise; with the effective precision 0 the number     *)
(* ends in the decimal separator with no fractional digit after it; in     *)
(* Binary, Octal and hex it is never emitted and the precision has no      *)
(* effect on the output.                                                   *)
(***************************************************************************)
\* the same value cut to its integer part, rendered with no precision
IntegerPart ==
    Reverse(core([fmt EXCEPT !.precision = None], [number EXCEPT !.frac = <<>>],
                 [dynamic EXCEPT !.precision = None], TRUE).digits)

\* the digit source yields a fractional sequence
HasFraction == number.frac # <<>>

DecimalSeparatorOf == IF fmt.decimal_separator = None THEN "." ELSE fmt.decimal_separator[1]

C30_DecimalSeparatorOnce ==
    (Rendered /\ Ok) =>
      LET int == IntegerPart
          frac == ExpectedFrac
          composed == DigitsOf
          legal == LegalDigits \cup {NumFmt_separator(fmt)}
      IN
        /\ Laid(composed)
        /\ \A i \in 1..Len(int) : int[i] \in legal
        /\ (fmt.base = "Decimal" /\ (HasFraction \/ EffPrecision # None)) =>
              /\ composed = int \o <<DecimalSeparatorOf>> \o frac
              /\ \A i \in 1..Len(frac) : frac[i] \in DecimalDigits
        /\ (fmt.base = "Decimal" /\ EffPrecision = Some(0)) =>
              EndsWith(<<DecimalSeparatorOf>>)
        /\ (fmt.base = "Decimal" /\ ~HasFraction /\ EffPrecision = None) =>
              composed = int
        /\ fmt.base # "Decimal" => composed = int
        /\ (fmt.base # "Decimal" /\ EffPrecision # None) =>
              result = fmt_with([fmt EXCEPT !.precision = None], number,
                                [dynamic EXCEPT !.precision = None], TRUE)

C30_Witness ==
    /\ Rendered /\ Ok
    /\ fmt.base = "Decimal" /\ EffPrecision = Some(0)
    /\ number = Float(FALSE, 12, <<"2", "5">>)
    /\ fmt.decimal_separator = None /\ fmt.separator = None
    /\ result.str = <<"1", "2", ".">>

=============================================================================
